---- MODULE Spec2Model ----
(***************************************************************************)
(* Model of the keyword resolver of ATG (src/src/atg/keywords/__init__.py) *)
(* together with the language-model wrapper it calls                       *)
(* (src/src/atg/ai/__init__.py) and the JSON store file it loads and       *)
(* saves.                                                                  *)
(*                                                                         *)
(* Python values are modelled as follows.                                  *)
(*   - a str is a record [t |-> "str", core, pad]: the text `core`,        *)
(*     surrounded by whitespace when `pad` is TRUE; None is the record     *)
(*     with t = "none".  str.strip() clears `pad`.                         *)
(*   - a float is the integer number of hundredths (0.8 is 80).            *)
(*   - a library entry is [shape, keyword, confidence]; shape "full" is a  *)
(*     dict with both keys, "noconf" a dict without "confidence".          *)
(*   - keyword_library is [kind, m]: a dict (m is the mapping), or, after  *)
(*     loading a store file of another shape, a list or a number.          *)
(*   - the store file is absent, is text that is not JSON, or is a JSON    *)
(*     document: a sequence of members, numbers being written as tokens    *)
(*     [neg, int, frac].  Python dict equality ignores insertion order, so *)
(*     members are written in the order of ActionOrder.                    *)
(*   - config is the "min_confidence" key of the Config object the          *)
(*     resolvers are given (absent from the defaults), min_confidence the   *)
(*     attribute each resolver copied from it.                              *)
(*   - a file suffix is [core, upper]: the suffix in lower case, and        *)
(*     whether the file name has it with upper-case letters; str.lower()    *)
(*     clears `upper`.  parsed is the record of the last call of the        *)
(*     ingestion layer.                                                     *)
(***************************************************************************)
EXTENDS Integers, Sequences, FiniteSets, TLC

VARIABLES alive, path, keyword_library, unmapped_keywords, file, temp_library, last,
          config, min_confidence, parsed

vars ==
  <<alive, path, keyword_library, unmapped_keywords, file, temp_library, last, config,
    min_confidence, parsed>>

\* ------------------------------------------------------------- values

Resolvers == {1, 2}

Solo == {1}

ActionOrder == <<"click button", "type text">>

Actions == {ActionOrder[i] : i \in 1..Len(ActionOrder)}

Str(c, p) == [t |-> "str", core |-> c, pad |-> p]

PyNone == [t |-> "none", core |-> "", pad |-> FALSE]

\* str.strip(): leading and trailing whitespace removed
Strip(s) == [s EXCEPT !.pad = FALSE]

\* truth value of a str or None (empty string and None are false)
Truthy(s) == s.t = "str" /\ (s.core # "" \/ s.pad)

DefaultConfidence == 80

Entry(k, c) == [shape |-> "full", keyword |-> k, confidence |-> c]

EntryNoConf(k) == [shape |-> "noconf", keyword |-> k, confidence |-> 0]

EmptyMap == [a \in {} |-> Entry(PyNone, 0)]

Dict(m) == [kind |-> "dict", m |-> m]

EmptyDict == Dict(EmptyMap)

PyList == [kind |-> "list", m |-> EmptyMap]

PyNumber == [kind |-> "number", m |-> EmptyMap]

\* the assignment drops the other entries
AssignOnly(d, a, e) == Dict([x \in {a} |-> e])

\* the dict d with d[a] = e assigned
Assign(d, a, e) == Dict([x \in (DOMAIN d.m) \cup {a} |-> IF x = a THEN e ELSE d.m[x]])

\* ------------------------------------------------------------- JSON text

Abs(n) == IF n < 0 THEN -n ELSE n

\* one fraction digit only
FormatFloatOneDigit(n) == [neg |-> n < 0, int |-> Abs(n) \div 100, frac |-> Abs(n) % 10]

\* json.dump of a float: sign, integer part, two fraction digits
FormatFloat(n) == [neg |-> n < 0, int |-> Abs(n) \div 100, frac |-> Abs(n) % 100]

\* json.load of a number token
ParseFloat(tok) == (IF tok.neg THEN -1 ELSE 1) * (tok.int * 100 + tok.frac)

Member(a, e) ==
  [key |-> a, shape |-> e.shape, keyword |-> e.keyword,
   confidence |-> FormatFloat(e.confidence)]

FileAbsent == [kind |-> "absent", top |-> "", members |-> << >>]

FileGarbage == [kind |-> "garbage", top |-> "", members |-> << >>]

JsonFile(top, members) == [kind |-> "json", top |-> top, members |-> members]

InOrder(S) == SelectSeq(ActionOrder, LAMBDA a : a \in S)

\* only the first entry is written
JsonDumpFirst(lib) ==
  LET keys == InOrder(DOMAIN lib.m)
  IN  JsonFile(lib.kind, [i \in 1..(IF Len(keys) > 0 THEN 1 ELSE 0) |->
                            Member(keys[i], lib.m[keys[i]])])

\* json.dump(temp_library, f, indent=2)
JsonDump(lib) ==
  LET keys == InOrder(DOMAIN lib.m)
  IN  JsonFile(lib.kind, [i \in 1..Len(keys) |-> Member(keys[i], lib.m[keys[i]])])

\* json.load(f) of a well-formed document; a key written twice keeps the last value
JsonLoad(f) ==
  LET keys == {f.members[i].key : i \in 1..Len(f.members)}
      lastOf(a) == CHOOSE i \in 1..Len(f.members) :
                     /\ f.members[i].key = a
                     /\ \A j \in 1..Len(f.members) : f.members[j].key = a => j <= i
      entry(mb) == [shape |-> mb.shape, keyword |-> mb.keyword,
                    confidence |-> ParseFloat(mb.confidence)]
  IN  [kind |-> f.top, m |-> [a \in keys |-> entry(f.members[lastOf(a)])]]

\* ------------------------------------------------------------- the store

LoadIo == {"ok", "mkdir_error", "open_error"}

SaveIo == {"ok", "mkdir_error", "open_error", "write_error"}

\* a file that is not JSON makes the load raise
load_keyword_library_strict(f, p, io) ==
  IF ~p THEN [raised |-> FALSE, lib |-> EmptyDict]
  ELSE IF io = "mkdir_error" THEN [raised |-> TRUE, lib |-> EmptyDict]
  ELSE IF f.kind = "absent" THEN [raised |-> FALSE, lib |-> EmptyDict]
  ELSE IF io = "open_error" THEN [raised |-> FALSE, lib |-> EmptyDict]
  ELSE IF f.kind = "garbage" THEN [raised |-> TRUE, lib |-> EmptyDict]
  ELSE [raised |-> FALSE, lib |-> JsonLoad(f)]

\* KeywordMapper._load_keyword_library, as called by __init__
load_keyword_library(f, p, io) ==
  IF ~p THEN [raised |-> FALSE, lib |-> EmptyDict]
  ELSE IF io = "mkdir_error" THEN [raised |-> TRUE, lib |-> EmptyDict]
  ELSE IF f.kind = "absent" THEN [raised |-> FALSE, lib |-> EmptyDict]
  ELSE IF io = "open_error" \/ f.kind = "garbage" THEN [raised |-> FALSE, lib |-> EmptyDict]
  ELSE [raised |-> FALSE, lib |-> JsonLoad(f)]

\* the entries of the file that the library lacks are kept in the file
save_keyword_library_merge(lib, f, p, io) ==
  LET old == IF f.kind = "json" /\ JsonLoad(f).kind = "dict" THEN JsonLoad(f).m
             ELSE EmptyMap
      merged == Dict([a \in DOMAIN old \cup DOMAIN lib.m |->
                        IF a \in DOMAIN lib.m THEN lib.m[a] ELSE old[a]])
  IN  IF ~p THEN [ok |-> FALSE, raised |-> FALSE, file |-> f, io |-> "none"]
      ELSE IF io = "mkdir_error" THEN [ok |-> FALSE, raised |-> TRUE, file |-> f, io |-> io]
      ELSE IF io = "open_error" THEN [ok |-> FALSE, raised |-> FALSE, file |-> f, io |-> io]
      ELSE IF io = "write_error"
      THEN [ok |-> FALSE, raised |-> FALSE, file |-> FileGarbage, io |-> io]
      ELSE [ok |-> TRUE, raised |-> FALSE, file |-> JsonDump(merged), io |-> io]

\* without a store path the library is written all the same
save_keyword_library_nopath(lib, f, p, io) ==
  IF ~p THEN [ok |-> TRUE, raised |-> FALSE, file |-> JsonDump(lib), io |-> "none"]
  ELSE IF io = "mkdir_error" THEN [ok |-> FALSE, raised |-> TRUE, file |-> f, io |-> io]
  ELSE IF io = "open_error" THEN [ok |-> FALSE, raised |-> FALSE, file |-> f, io |-> io]
  ELSE IF io = "write_error" THEN [ok |-> FALSE, raised |-> FALSE, file |-> FileGarbage, io |-> io]
  ELSE [ok |-> TRUE, raised |-> FALSE, file |-> JsonDump(lib), io |-> io]

\* a failure to open the file is not caught
save_keyword_library_uncaught(lib, f, p, io) ==
  IF ~p THEN [ok |-> FALSE, raised |-> FALSE, file |-> f, io |-> "none"]
  ELSE IF io \in {"mkdir_error", "open_error"}
  THEN [ok |-> FALSE, raised |-> TRUE, file |-> f, io |-> io]
  ELSE IF io = "write_error" THEN [ok |-> FALSE, raised |-> FALSE, file |-> FileGarbage, io |-> io]
  ELSE [ok |-> TRUE, raised |-> FALSE, file |-> JsonDump(lib), io |-> io]

\* KeywordMapper._save_keyword_library: ok is the returned bool, raised an
\* exception leaving the method, file the store file afterwards, io the I/O
\* outcome that was consumed ("none" when the store was not touched)
save_keyword_library(lib, f, p, io) ==
  IF ~p THEN [ok |-> FALSE, raised |-> FALSE, file |-> f, io |-> "none"]
  ELSE IF io = "mkdir_error" THEN [ok |-> FALSE, raised |-> TRUE, file |-> f, io |-> io]
  ELSE IF io = "open_error" THEN [ok |-> FALSE, raised |-> FALSE, file |-> f, io |-> io]
  ELSE IF io = "write_error" THEN [ok |-> FALSE, raised |-> FALSE, file |-> FileGarbage, io |-> io]
  ELSE [ok |-> TRUE, raised |-> FALSE, file |-> JsonDump(lib), io |-> io]

\* ------------------------------------------------------------- the language model

NoText == Str("", FALSE)

TxtPlain == "Click Submit Button"

JsonFull == "{\"keyword\": \"Click Button\", \"confidence\": 0.9}"

JsonPadded == "{\"keyword\": \" Click Button \", \"confidence\": 0.9}"

JsonNoConf == "{\"keyword\": \"Click Button\"}"

JsonConfWord == "{\"keyword\": \"Click Button\", \"confidence\": \"high\"}"

JsonKwNull == "{\"keyword\": null, \"confidence\": 0.9}"

JsonConfNull == "{\"keyword\": \"Click Button\", \"confidence\": null}"

JsonScalar == "42"

JsonLow == "{\"keyword\": \"Click Button\", \"confidence\": 0.5}"

JsonOver == "{\"keyword\": \"Click Button\", \"confidence\": 1.5}"

JsonNeg == "{\"keyword\": \"Click Button\", \"confidence\": -0.2}"

JsonCores ==
  {JsonFull, JsonPadded, JsonNoConf, JsonConfWord, JsonKwNull, JsonConfNull, JsonScalar}

\* what the model may send back as the first choice's message content
ModelTexts ==
  {Str(c, p) : c \in {"", TxtPlain}, p \in BOOLEAN} \cup {Str(c, FALSE) : c \in JsonCores}

Reply(k, txt) == [kind |-> k, text |-> txt]

NoReply == Reply("none", NoText)

\* the outcomes of one use of the language model: the client cannot be set up,
\* the request fails, the message content is None, or it is a text
ModelReplies ==
  {Reply(k, NoText) : k \in {"init_error", "api_error", "null"}}
    \cup {Reply("text", txt) : txt \in ModelTexts}

\* a failed request is sent a second time
generate_test_cases_retry(reply) ==
  IF reply.kind = "init_error" THEN [calls |-> 0, raised |-> TRUE, content |-> PyNone]
  ELSE IF reply.kind = "api_error" THEN [calls |-> 2, raised |-> TRUE, content |-> PyNone]
  ELSE IF reply.kind = "null" THEN [calls |-> 1, raised |-> FALSE, content |-> PyNone]
  ELSE [calls |-> 1, raised |-> FALSE, content |-> reply.text]

\* TestGenerator.initialize, generate_test_cases and _parse_test_cases, as used by
\* map_action_to_keyword: calls counts chat.completions.create invocations and
\* content is response[0]["content"]
generate_test_cases(reply) ==
  IF reply.kind = "init_error" THEN [calls |-> 0, raised |-> TRUE, content |-> PyNone]
  ELSE IF reply.kind = "api_error" THEN [calls |-> 1, raised |-> TRUE, content |-> PyNone]
  ELSE IF reply.kind = "null" THEN [calls |-> 1, raised |-> FALSE, content |-> PyNone]
  ELSE [calls |-> 1, raised |-> FALSE, content |-> reply.text]

Decoded(isdict, hk, hc, k, ct, c) ==
  [ok |-> TRUE, isdict |-> isdict, has_keyword |-> hk, has_confidence |-> hc,
   keyword |-> k, conf_t |-> ct, confidence |-> c]

JSONDecodeError ==
  [ok |-> FALSE, isdict |-> FALSE, has_keyword |-> FALSE, has_confidence |-> FALSE,
   keyword |-> PyNone, conf_t |-> "none", confidence |-> 0]

\* json.loads(content) for the texts of ModelTexts, JsonLow, JsonOver and JsonNeg
\* (whitespace around a JSON document is ignored by the decoder)
json_loads(txt) ==
  LET cb == Str("Click Button", FALSE)
  IN  CASE txt.core = JsonFull -> Decoded(TRUE, TRUE, TRUE, cb, "num", 90)
        [] txt.core = JsonPadded ->
             Decoded(TRUE, TRUE, TRUE, Str("Click Button", TRUE), "num", 90)
        [] txt.core = JsonNoConf -> Decoded(TRUE, TRUE, FALSE, cb, "none", 0)
        [] txt.core = JsonConfWord -> Decoded(TRUE, TRUE, TRUE, cb, "word", 0)
        [] txt.core = JsonKwNull -> Decoded(TRUE, TRUE, TRUE, PyNone, "num", 90)
        [] txt.core = JsonConfNull -> Decoded(TRUE, TRUE, TRUE, cb, "null", 0)
        [] txt.core = JsonScalar -> Decoded(FALSE, FALSE, FALSE, PyNone, "none", 0)
        [] txt.core = JsonLow -> Decoded(TRUE, TRUE, TRUE, cb, "num", 50)
        [] txt.core = JsonOver -> Decoded(TRUE, TRUE, TRUE, cb, "num", 150)
        [] txt.core = JsonNeg -> Decoded(TRUE, TRUE, TRUE, cb, "num", -20)
        [] OTHER -> JSONDecodeError

\* float(result["confidence"])
PyFloat(d) ==
  IF d.conf_t = "num" THEN [err |-> "none", value |-> d.confidence]
  ELSE IF d.conf_t = "word" THEN [err |-> "ValueError", value |-> 0]
  ELSE [err |-> "TypeError", value |-> 0]

\* ------------------------------------------------------------- the resolver

Pair(k, c) == [keyword |-> k, confidence |-> c]

NoPair == Pair(PyNone, 0)

\* The outcome of a call: the resolver's fields and the store file after it, the
\* returned pair (ret), whether an exception left the method (raised), whether
\* the action was found in the library (hit), the number of language-model calls
\* (calls), the reply and the I/O outcome consumed, and how the save ended
\* ("none" when none was attempted).
Out(l, u, ff, rt, rs, h, n, rp, i, sv) ==
  [lib |-> l, unmapped |-> u, file |-> ff, ret |-> rt, raised |-> rs, hit |-> h,
   calls |-> n, reply |-> rp, io |-> i, saved |-> sv]

InLibraryNever(lib, action) == FALSE

\* action in self.keyword_library, for a dict or a list (the lists loaded are empty)
InLibrary(lib, action) == action \in DOMAIN lib.m

\* (self.keyword_library[action]["keyword"], self.keyword_library[action]["confidence"])
Lookup(lib, action) == Pair(lib.m[action].keyword, lib.m[action].confidence)

except_handler_forgets(unm, action) == unm

\* the actions recorded before are dropped
except_handler_resets(unm, action) == {action}

\* every action is recorded as unmapped
except_handler_all(unm, action) == unm \cup Actions

\* self.unmapped_keywords.add(action) of the except clause
except_handler(unm, action) == unm \cup {action}

SuggestedKeywordRaw(d) == d.keyword

\* result["keyword"].strip()
SuggestedKeyword(d) == Strip(d.keyword)

FallbackKeywordRaw(content) == content

\* first_response["content"].strip()
FallbackKeyword(content) == Strip(content)

\* the mapping is rolled back when it cannot be saved
store_mapping_rollback(lib, unm, f, p, action, k, c, reply, io) ==
  IF lib.kind # "dict"
  THEN Out(lib, except_handler(unm, action), f, NoPair, FALSE, FALSE, 1, reply, "none", "none")
  ELSE LET l2 == Assign(lib, action, Entry(k, c))
           s == save_keyword_library(l2, f, p, io)
       IN  IF s.raised
           THEN Out(lib, except_handler(unm, action), s.file, NoPair, FALSE, FALSE, 1,
                    reply, s.io, "raise")
           ELSE IF s.ok
           THEN Out(l2, unm, s.file, Pair(k, c), FALSE, FALSE, 1, reply, s.io, "ok")
           ELSE Out(lib, unm, s.file, NoPair, FALSE, FALSE, 1, reply, s.io, "fail")

\* a mapping that is stored and saved takes the action out of the unmapped set
store_mapping_clears(lib, unm, f, p, action, k, c, reply, io) ==
  IF lib.kind # "dict"
  THEN Out(lib, except_handler(unm, action), f, NoPair, FALSE, FALSE, 1, reply, "none", "none")
  ELSE LET l2 == Assign(lib, action, Entry(k, c))
           s == save_keyword_library(l2, f, p, io)
       IN  IF s.raised
           THEN Out(l2, except_handler(unm, action), s.file, NoPair, FALSE, FALSE, 1,
                    reply, s.io, "raise")
           ELSE IF s.ok
           THEN Out(l2, unm \ {action}, s.file, Pair(k, c), FALSE, FALSE, 1, reply, s.io,
                    "ok")
           ELSE Out(l2, unm, s.file, NoPair, FALSE, FALSE, 1, reply, s.io, "fail")

\* "Add to library with confidence score", save, and return: the same statements
\* after a structured decode and after the raw-text fallback.  Assigning into a
\* library that is a list raises TypeError, and so may the save (mkdir): both end
\* in the except clause of map_action_to_keyword.
store_mapping(lib, unm, f, p, action, k, c, reply, io) ==
  IF lib.kind # "dict"
  THEN Out(lib, except_handler(unm, action), f, NoPair, FALSE, FALSE, 1, reply, "none", "none")
  ELSE LET l2 == Assign(lib, action, Entry(k, c))
           s == save_keyword_library(l2, f, p, io)
       IN  IF s.raised
           THEN Out(l2, except_handler(unm, action), s.file, NoPair, FALSE, FALSE, 1,
                    reply, s.io, "raise")
           ELSE IF s.ok
           THEN Out(l2, unm, s.file, Pair(k, c), FALSE, FALSE, 1, reply, s.io, "ok")
           ELSE Out(l2, unm, s.file, NoPair, FALSE, FALSE, 1, reply, s.io, "fail")

\* KeywordMapper.map_action_to_keyword
map_action_to_keyword(lib, unm, f, p, action, reply, io) ==
  LET \* an exception raised before the try statement leaves the method
      Raise(h) == Out(lib, unm, f, NoPair, TRUE, h, 0, NoReply, "none", "none")
      \* except Exception: ... return None, 0.0
      Failed(n) ==
        Out(lib, except_handler(unm, action), f, NoPair, FALSE, FALSE, n, reply, "none",
            "none")
      Fallback(content) ==
        store_mapping(lib, unm, f, p, action, FallbackKeyword(content), DefaultConfidence,
                      reply, io)
  IN  IF lib.kind = "number" THEN Raise(FALSE)
      ELSE IF InLibrary(lib, action)
      THEN IF lib.m[action].shape = "full"
           THEN Out(lib, unm, f, Lookup(lib, action), FALSE, TRUE, 0, NoReply, "none",
                    "none")
           ELSE Raise(TRUE)
      \* list(self.keyword_library.keys()): a list has no keys(), and the
      \* AttributeError reaches the except clause before the model is called
      ELSE IF lib.kind = "list"
      THEN Out(lib, except_handler(unm, action), f, NoPair, FALSE, FALSE, 0, NoReply,
               "none", "none")
      ELSE LET g == generate_test_cases(reply)
           IN  IF g.raised \/ g.content.t = "none" THEN Failed(g.calls)
               ELSE LET d == json_loads(g.content)
                    IN  IF ~d.ok THEN Fallback(g.content)
                        ELSE IF d.isdict /\ d.has_keyword /\ d.has_confidence
                        THEN IF d.keyword.t # "str" THEN Failed(g.calls)
                             ELSE LET x == PyFloat(d)
                                  IN  IF x.err = "ValueError" THEN Fallback(g.content)
                                      ELSE IF x.err = "TypeError" THEN Failed(g.calls)
                                      ELSE store_mapping(lib, unm, f, p, action,
                                                         SuggestedKeyword(d), x.value,
                                                         reply, io)
                        ELSE Out(lib, unm, f, NoPair, FALSE, FALSE, g.calls, reply,
                                 "none", "none")

\* the action stays in the unmapped set
add_feedback_keeps(lib, unm, f, p, action, k, c, io) ==
  IF lib.kind # "dict"
  THEN Out(lib, unm, f, NoPair, TRUE, FALSE, 0, NoReply, "none", "none")
  ELSE LET l2 == Assign(lib, action, Entry(k, c))
           s == save_keyword_library(l2, f, p, io)
       IN  IF s.raised
           THEN Out(l2, unm, s.file, NoPair, TRUE, FALSE, 0, NoReply, s.io, "raise")
           ELSE Out(l2, unm, s.file, NoPair, FALSE, FALSE, 0, NoReply, s.io,
                    IF s.ok THEN "ok" ELSE "fail")

\* KeywordMapper.add_feedback
add_feedback(lib, unm, f, p, action, k, c, io) ==
  IF lib.kind # "dict"
  THEN Out(lib, unm, f, NoPair, TRUE, FALSE, 0, NoReply, "none", "none")
  ELSE LET l2 == Assign(lib, action, Entry(k, c))
           s == save_keyword_library(l2, f, p, io)
       IN  IF s.raised
           THEN Out(l2, unm, s.file, NoPair, TRUE, FALSE, 0, NoReply, s.io, "raise")
           ELSE Out(l2, unm \ {action}, s.file, NoPair, FALSE, FALSE, 0, NoReply, s.io,
                    IF s.ok THEN "ok" ELSE "fail")

\* Config.get("min_confidence", default) and Config.set("min_confidence", v)
ConfigUnset == [set |-> FALSE, value |-> 0]

config_get(cfg, default) == IF cfg.set THEN cfg.value ELSE default

config_set(v) == [set |-> TRUE, value |-> v]

DefaultMinConfidence == 80

Indent == 4

\* f"    {keyword}" and the empty string
Line(k) == [indent |-> Indent, keyword |-> k]

EmptyLine == [indent |-> 0, keyword |-> NoText]

\* the threshold is not applied
generate_test_case_ungated(ret, minc) ==
  IF Truthy(ret.keyword) THEN Line(ret.keyword) ELSE EmptyLine

\* KeywordMapper.generate_test_case, after its call of map_action_to_keyword
\* returned ret
generate_test_case(ret, minc) ==
  IF Truthy(ret.keyword) /\ ret.confidence >= minc THEN Line(ret.keyword) ELSE EmptyLine

\* The prompt of map_action_to_keyword: the action phrase it embeds, whether it
\* embeds a list of what the library knows, and that list.
Prompt(a, l, k) == [action |-> a, has_list |-> l, known |-> k]

NoPrompt == Prompt("", FALSE, {})

\* the f-string of lines 102-108: library_keywords is computed and left out
build_prompt(lib, action) == Prompt(action, FALSE, {})

Step(a, k, c) == [action |-> a, keyword |-> k, confidence |-> c]

NoStep == Step("", PyNone, 0)

\* TestCaseGenerator.generate_test_case: the entry of processed_steps for a step
\* whose action was resolved to ret ("keyword": keyword or action)
processed_step(action, ret) ==
  Step(action, IF Truthy(ret.keyword) THEN ret.keyword ELSE Str(action, FALSE),
       ret.confidence)

\* ------------------------------------------------------------- the ingestion layer

Suffix(c, u) == [core |-> c, upper |-> u]

\* the suffix is left as it is written
LowerKeep(sfx) == sfx

\* file_path.suffix.lower()
Lower(sfx) == [sfx EXCEPT !.upper = FALSE]

\* the keys of PARSERS, in atg.ingestion and in atg.ingestion.parsers
ParserKeys == {Suffix(c, FALSE) : c \in {".txt", ".md", ".markdown", ".docx", ".pdf"}}

\* PARSERS[ext]
PARSERS(ext) ==
  CASE ext.core = ".txt" -> "TextParser"
    [] ext.core \in {".md", ".markdown"} -> "MarkdownParser"
    [] ext.core = ".docx" -> "DocxParser"
    [] ext.core = ".pdf" -> "PdfParser"

\* The outcome of a call of the ingestion layer: the exception that left it
\* ("none" when it returned), the parser class selected ("None" for none), and
\* whether the parser's parse method was called.
Parsed(fn, sfx, ex, raised, parser, ran) ==
  [fn |-> fn, suffix |-> sfx, exists |-> ex, raised |-> raised, parser |-> parser,
   ran |-> ran]

NoParse == Parsed("none", Suffix("", FALSE), FALSE, "none", "None", FALSE)

\* get_parser of atg.ingestion.parsers (an instance) and of atg.ingestion (the class)
get_parser(fn, sfx, ex) ==
  LET ext == Lower(sfx)
  IN  IF ext \notin ParserKeys THEN Parsed(fn, sfx, ex, "ValueError", "None", FALSE)
      ELSE Parsed(fn, sfx, ex, "none", PARSERS(ext), FALSE)

\* atg.ingestion.get_parser_for_file: None when get_parser raises ValueError
get_parser_for_file(fn, sfx, ex) ==
  LET g == get_parser(fn, sfx, ex)
  IN  IF g.raised = "ValueError" THEN Parsed(fn, sfx, ex, "none", "None", FALSE) ELSE g

\* atg.ingestion.parse_document; parse_ok: the parser's parse method returns the
\* content (it raises otherwise)
parse_document(fn, sfx, ex, parse_ok) ==
  IF ~ex THEN Parsed(fn, sfx, ex, "FileNotFoundError", "None", FALSE)
  ELSE LET g == get_parser_for_file(fn, sfx, ex)
       IN  IF g.parser = "None" THEN Parsed(fn, sfx, ex, "ValueError", "None", FALSE)
           ELSE Parsed(fn, sfx, ex, IF parse_ok THEN "none" ELSE "parse_error", g.parser,
                       TRUE)

\* ------------------------------------------------------------- the state machine

NoLib == [kind |-> "none", m |-> EmptyMap]

ClickButton == Str("Click Button", FALSE)

\* store files found at start: none, text that is not JSON, JSON of another
\* shape, an empty library, the library of the tests, and entries of another shape
InitFiles ==
  {FileAbsent, FileGarbage, JsonDump(PyList), JsonDump(PyNumber), JsonDump(EmptyDict),
   JsonDump(Dict([a \in {"click button"} |-> Entry(ClickButton, 100)])),
   JsonDump(Dict([a \in {"click button"} |-> EntryNoConf(ClickButton)]))}

\* the (keyword, confidence) arguments callers pass to add_feedback
FeedbackArgs == {Pair(Str("Type Text", FALSE), 90)}

\* The record of the last call; line is what KeywordMapper.generate_test_case
\* returned; of TestCaseGenerator.generate_test_case, template is what
\* self.templates held for the framework, step the step it rendered, outdir
\* whether it reached output_dir.mkdir, and written whether it wrote the file.
Op(o, r, a, args, ret, raised, hit, calls, reply, io, saved) ==
  [op |-> o, r |-> r, action |-> a, args |-> args, ret |-> ret, raised |-> raised,
   hit |-> hit, calls |-> calls, reply |-> reply, io |-> io, saved |-> saved,
   line |-> EmptyLine, step |-> NoStep, written |-> FALSE, template |-> "none",
   outdir |-> FALSE, prompt |-> NoPrompt]

\* the prompt that went to the language model in a call with outcome res
Sent(res, lib, a) == IF res.calls > 0 THEN build_prompt(lib, a) ELSE NoPrompt

NoOp == Op("none", 0, "", NoPair, NoPair, FALSE, FALSE, 0, NoReply, "none", "none")

\* the library most recently written to the store file by a successful save
\* (temp_library of _save_keyword_library), NoLib when the file does not hold one
Written(sv, io, lib) ==
  IF sv = "ok" THEN lib ELSE IF io = "write_error" THEN NoLib ELSE temp_library

Init ==
  /\ alive = [r \in Resolvers |-> FALSE]
  /\ path = [r \in Resolvers |-> FALSE]
  /\ keyword_library = [r \in Resolvers |-> EmptyDict]
  /\ unmapped_keywords = [r \in Resolvers |-> {}]
  /\ file \in InitFiles
  /\ temp_library = NoLib
  /\ last = NoOp
  /\ config = ConfigUnset
  /\ min_confidence = [r \in Resolvers |-> DefaultMinConfidence]
  /\ parsed = NoParse

\* KeywordMapper(config), with keyword_library_path set (p) or left unset
Construct(r, p, io) ==
  /\ p \/ io = "ok"
  /\ io = "mkdir_error" => file.kind = "absent"
  /\ LET ld == load_keyword_library(file, p, io)
     IN  /\ alive' = [alive EXCEPT ![r] = ~ld.raised]
         /\ path' = [path EXCEPT ![r] = p]
         /\ keyword_library' = [keyword_library EXCEPT ![r] = ld.lib]
         /\ unmapped_keywords' = [unmapped_keywords EXCEPT ![r] = {}]
         /\ last' = Op("construct", r, "", NoPair, NoPair, ld.raised, FALSE, 0, NoReply,
                       IF p THEN io ELSE "none", "none")
  /\ min_confidence' =
       [min_confidence EXCEPT ![r] = config_get(config, DefaultMinConfidence)]
  /\ UNCHANGED <<file, temp_library, config, parsed>>

\* a call of map_action_to_keyword(a) on resolver r
Map(r, a, reply, io) ==
  /\ alive[r]
  /\ LET res == map_action_to_keyword(keyword_library[r], unmapped_keywords[r], file,
                                      path[r], a, reply, io)
     IN  /\ keyword_library' = [keyword_library EXCEPT ![r] = res.lib]
         /\ unmapped_keywords' = [unmapped_keywords EXCEPT ![r] = res.unmapped]
         /\ file' = res.file
         /\ temp_library' = Written(res.saved, res.io, res.lib)
         /\ last' = [Op("map", r, a, NoPair, res.ret, res.raised, res.hit, res.calls,
                        res.reply, res.io, res.saved)
                       EXCEPT !.prompt = Sent(res, keyword_library[r], a)]
  /\ UNCHANGED <<alive, path, config, min_confidence, parsed>>

\* a call of add_feedback(a, keyword, confidence) on resolver r
Feedback(r, a, args, io) ==
  /\ alive[r]
  /\ LET res == add_feedback(keyword_library[r], unmapped_keywords[r], file, path[r], a,
                             args.keyword, args.confidence, io)
     IN  /\ keyword_library' = [keyword_library EXCEPT ![r] = res.lib]
         /\ unmapped_keywords' = [unmapped_keywords EXCEPT ![r] = res.unmapped]
         /\ file' = res.file
         /\ temp_library' = Written(res.saved, res.io, res.lib)
         /\ last' = Op("feedback", r, a, args, res.ret, res.raised, res.hit, res.calls,
                       res.reply, res.io, res.saved)
  /\ UNCHANGED <<alive, path, config, min_confidence, parsed>>

\* The second action phrase is there for what a call does to the entries of other
\* actions: the model fails on it or answers with a well-formed object.
OtherReplies == {Reply("api_error", NoText), Reply("text", Str(JsonFull, FALSE))}

\* the language-model outcomes a call of map_action_to_keyword(a) can meet: none
\* when the call ends before the model is used
RepliesFor(r, a) ==
  IF keyword_library[r].kind \in {"number", "list"} \/ InLibrary(keyword_library[r], a)
  THEN {NoReply}
  ELSE IF a = ActionOrder[1] THEN ModelReplies
  ELSE OtherReplies

\* the I/O outcomes a save by resolver r can meet: none with the store path
\* unset; mkdir(parents=True, exist_ok=True) succeeds when the store file, and so
\* its directory, exists
SaveIoFor(r) ==
  IF ~path[r] THEN {"ok"}
  ELSE IF file.kind = "absent" THEN SaveIo
  ELSE SaveIo \ {"mkdir_error"}

\* a resolver is constructed (an earlier instance in the slot is dropped)
Constructs == \E r \in Solo, p \in BOOLEAN, io \in LoadIo : Construct(r, p, io)

\* a caller resolves an action
Maps ==
  \E r \in Solo, a \in Actions :
    \E reply \in RepliesFor(r, a), io \in SaveIoFor(r) : Map(r, a, reply, io)

\* a caller gives feedback for an action
Feedbacks ==
  \E r \in Solo, a \in Actions, args \in FeedbackArgs :
    \E io \in SaveIoFor(r) : Feedback(r, a, args, io)

Next == Constructs \/ Maps \/ Feedbacks

Spec == Init /\ [][Next]_vars

\* ------------------------------------------------------------- line and scaffold generation

\* config.set("min_confidence", v)
SetConfig(v) ==
  /\ config # config_set(v)
  /\ config' = config_set(v)
  /\ last' = Op("set", 0, "", NoPair, NoPair, FALSE, FALSE, 0, NoReply, "none", "none")
  /\ UNCHANGED <<alive, path, keyword_library, unmapped_keywords, file, temp_library,
                 min_confidence, parsed>>

\* a call of KeywordMapper.generate_test_case(a) on resolver r
Gen(r, a, reply, io) ==
  /\ alive[r]
  /\ LET res == map_action_to_keyword(keyword_library[r], unmapped_keywords[r], file,
                                      path[r], a, reply, io)
     IN  /\ keyword_library' = [keyword_library EXCEPT ![r] = res.lib]
         /\ unmapped_keywords' = [unmapped_keywords EXCEPT ![r] = res.unmapped]
         /\ file' = res.file
         /\ temp_library' = Written(res.saved, res.io, res.lib)
         /\ last' = [Op("gen", r, a, NoPair, res.ret, res.raised, res.hit, res.calls,
                        res.reply, res.io, res.saved)
                       EXCEPT !.line = IF res.raised THEN EmptyLine
                                       ELSE generate_test_case(res.ret, min_confidence[r]),
                              !.prompt = Sent(res, keyword_library[r], a)]
  /\ UNCHANGED <<alive, path, config, min_confidence, parsed>>

\* what self.templates.get(f"test_case_{framework}") gives: None, the text of an
\* empty template file, or a template
Templates == {"none", "empty", "text"}

\* every framework counts as having a template
has_template_always(tmpl) == TRUE

\* the test `if not template` of TestCaseGenerator.generate_test_case, negated
has_template(tmpl) == tmpl = "text"

\* A call of TestCaseGenerator.generate_test_case with one step, for action a,
\* by a generator whose keyword_mapper is resolver r.  tmpl: what is loaded as
\* the template of the framework; out: rendering fails, making the output
\* directory or writing the file fails, or the file is written.
Scaffold(r, a, tmpl, reply, io, out) ==
  /\ alive[r]
  /\ IF ~has_template(tmpl)
     THEN /\ last' = [Op("scaffold", r, a, NoPair, NoPair, TRUE, FALSE, 0, NoReply, "none",
                         "none")
                        EXCEPT !.template = tmpl]
          /\ UNCHANGED <<keyword_library, unmapped_keywords, file, temp_library>>
     ELSE LET res == map_action_to_keyword(keyword_library[r], unmapped_keywords[r], file,
                                           path[r], a, reply, io)
              done == ~res.raised /\ out = "ok"
          IN  /\ keyword_library' = [keyword_library EXCEPT ![r] = res.lib]
              /\ unmapped_keywords' = [unmapped_keywords EXCEPT ![r] = res.unmapped]
              /\ file' = res.file
              /\ temp_library' = Written(res.saved, res.io, res.lib)
              /\ last' = [Op("scaffold", r, a, NoPair, res.ret, ~done, res.hit, res.calls,
                             res.reply, res.io, res.saved)
                            EXCEPT !.step = IF done THEN processed_step(a, res.ret)
                                            ELSE NoStep,
                                   !.written = done,
                                   !.template = tmpl,
                                   !.outdir = ~res.raised /\ out # "render_error",
                                   !.prompt = Sent(res, keyword_library[r], a)]
  /\ UNCHANGED <<alive, path, config, min_confidence, parsed>>

Thresholds == {90}

\* what the model answers in the runs of line and scaffold generation: a failed
\* request, and objects with a high and a low confidence
GenReplies ==
  {Reply("api_error", NoText), Reply("text", Str(JsonFull, FALSE)),
   Reply("text", Str(JsonLow, FALSE))}

GenRepliesFor(r, a) ==
  IF keyword_library[r].kind \in {"number", "list"} \/ InLibrary(keyword_library[r], a)
  THEN {NoReply}
  ELSE IF a = ActionOrder[1] THEN GenReplies
  ELSE OtherReplies

\* in these runs a save fails only for want of a store path
GenIo == {"ok"}

\* feedback with a confidence between the default and the raised threshold, and
\* with an empty keyword
GenFeedbackArgs == {Pair(Str("Type Text", FALSE), 85), Pair(NoText, 90)}

SetsConfig == \E v \in Thresholds : SetConfig(v)

GenMaps ==
  \E r \in Solo, a \in Actions :
    \E reply \in GenRepliesFor(r, a), io \in GenIo : Map(r, a, reply, io)

Gens ==
  \E r \in Solo, a \in Actions :
    \E reply \in GenRepliesFor(r, a), io \in GenIo : Gen(r, a, reply, io)

Scaffolds ==
  \E r \in Solo, a \in Actions :
    \/ \E tmpl \in Templates \ {"text"} : Scaffold(r, a, tmpl, NoReply, "ok", "ok")
    \/ \E reply \in GenRepliesFor(r, a), io \in GenIo,
           out \in {"ok", "render_error", "write_error"} :
         Scaffold(r, a, "text", reply, io, out)

GenFeedbacks ==
  \E r \in Solo, a \in {ActionOrder[2]}, args \in GenFeedbackArgs :
    \E io \in GenIo : Feedback(r, a, args, io)

GenNext == Constructs \/ SetsConfig \/ GenMaps \/ Gens \/ Scaffolds \/ GenFeedbacks

\* no store file is found at start
GenInitFiles == {FileAbsent}

GenInit ==
  /\ alive = [r \in Resolvers |-> FALSE]
  /\ path = [r \in Resolvers |-> FALSE]
  /\ keyword_library = [r \in Resolvers |-> EmptyDict]
  /\ unmapped_keywords = [r \in Resolvers |-> {}]
  /\ file \in GenInitFiles
  /\ temp_library = NoLib
  /\ last = NoOp
  /\ config = ConfigUnset
  /\ min_confidence = [r \in Resolvers |-> DefaultMinConfidence]
  /\ parsed = NoParse

SpecGen == GenInit /\ [][GenNext]_vars

\* ------------------------------------------------------------- two resolvers, one store path

\* Two resolver instances are constructed on the same store path and resolve
\* actions in any order of calls; every save succeeds, so that an entry in the
\* memory of an instance was loaded from the file or written to it.
TwoInitFiles == {FileAbsent, JsonDump(EmptyDict)}

TwoInit ==
  /\ alive = [r \in Resolvers |-> FALSE]
  /\ path = [r \in Resolvers |-> FALSE]
  /\ keyword_library = [r \in Resolvers |-> EmptyDict]
  /\ unmapped_keywords = [r \in Resolvers |-> {}]
  /\ file \in TwoInitFiles
  /\ temp_library = NoLib
  /\ last = NoOp
  /\ config = ConfigUnset
  /\ min_confidence = [r \in Resolvers |-> DefaultMinConfidence]
  /\ parsed = NoParse

TwoRepliesFor(r, a) ==
  IF InLibrary(keyword_library[r], a) THEN {NoReply} ELSE OtherReplies

TwoConstructs == \E r \in Resolvers : Construct(r, TRUE, "ok")

TwoMaps ==
  \E r \in Resolvers, a \in Actions :
    \E reply \in TwoRepliesFor(r, a) : Map(r, a, reply, "ok")

TwoNext == TwoConstructs \/ TwoMaps

SpecTwo == TwoInit /\ [][TwoNext]_vars

\* ------------------------------------------------------------- confidences of any size

\* The model reports, and callers of add_feedback pass, confidences inside and
\* outside [0.0, 1.0].
RangeReplies == {Reply("text", Str(c, FALSE)) : c \in {JsonFull, JsonOver, JsonNeg}}

RangeRepliesFor(r, a) ==
  IF InLibrary(keyword_library[r], a) THEN {NoReply}
  ELSE IF a = ActionOrder[1] THEN RangeReplies
  ELSE OtherReplies

RangeFeedbackArgs == {Pair(Str("Type Text", FALSE), c) : c \in {90, 150}}

RangeInit ==
  /\ alive = [r \in Resolvers |-> FALSE]
  /\ path = [r \in Resolvers |-> FALSE]
  /\ keyword_library = [r \in Resolvers |-> EmptyDict]
  /\ unmapped_keywords = [r \in Resolvers |-> {}]
  /\ file = FileAbsent
  /\ temp_library = NoLib
  /\ last = NoOp
  /\ config = ConfigUnset
  /\ min_confidence = [r \in Resolvers |-> DefaultMinConfidence]
  /\ parsed = NoParse

RangeConstructs == \E r \in Solo, p \in BOOLEAN : Construct(r, p, "ok")

RangeMaps ==
  \E r \in Solo, a \in Actions :
    \E reply \in RangeRepliesFor(r, a) : Map(r, a, reply, "ok")

RangeFeedbacks ==
  \E r \in Solo, a \in Actions, args \in RangeFeedbackArgs : Feedback(r, a, args, "ok")

RangeNext == RangeConstructs \/ RangeMaps \/ RangeFeedbacks

SpecRange == RangeInit /\ [][RangeNext]_vars

\* ------------------------------------------------------------- documents

\* the suffixes of the documents handed to the ingestion layer: the supported
\* ones, two others, and none, in lower case and with upper-case letters
Suffixes ==
  {Suffix(c, u) : c \in {".txt", ".md", ".markdown", ".docx", ".pdf", ".unknown", ".gz"},
                  u \in BOOLEAN} \cup {Suffix("", FALSE)}

ParseInit == Init /\ file = FileAbsent

ResolverVars ==
  <<alive, path, keyword_library, unmapped_keywords, file, temp_library, last, config,
    min_confidence>>

\* atg.ingestion.parsers.get_parser(file_path)
GetParserInstance ==
  \E sfx \in Suffixes, ex \in BOOLEAN :
    /\ parsed' = get_parser("parsers.get_parser", sfx, ex)
    /\ UNCHANGED ResolverVars

\* atg.ingestion.get_parser(file_path)
GetParserClass ==
  \E sfx \in Suffixes, ex \in BOOLEAN :
    /\ parsed' = get_parser("get_parser", sfx, ex)
    /\ UNCHANGED ResolverVars

\* atg.ingestion.get_parser_for_file(file_path)
GetParserForFile ==
  \E sfx \in Suffixes, ex \in BOOLEAN :
    /\ parsed' = get_parser_for_file("get_parser_for_file", sfx, ex)
    /\ UNCHANGED ResolverVars

\* atg.ingestion.parse_document(file_path)
ParseDocument ==
  \E sfx \in Suffixes, ex \in BOOLEAN, parse_ok \in BOOLEAN :
    /\ parsed' = parse_document("parse_document", sfx, ex, parse_ok)
    /\ UNCHANGED ResolverVars

ParseNext == GetParserInstance \/ GetParserClass \/ GetParserForFile \/ ParseDocument

SpecParse == ParseInit /\ [][ParseNext]_vars

\* ------------------------------------------------------------- properties

\* the store file holds a library in which action a has the pair pr
InStore(a, pr) ==
  /\ file.kind = "json"
  /\ file.top = "dict"
  /\ a \in DOMAIN JsonLoad(file).m
  /\ JsonLoad(file).m[a] = Entry(pr.keyword, pr.confidence)

\* the library of resolver r has the pair pr under action a
InMemory(r, a, pr) ==
  /\ keyword_library[r].kind = "dict"
  /\ a \in DOMAIN keyword_library[r].m
  /\ keyword_library[r].m[a] = Entry(pr.keyword, pr.confidence)

\* the step is a call map_action_to_keyword(a) on resolver r
MapStep(r, a) == last'.op = "map" /\ last'.r = r /\ last'.action = a

\* the last call was map_action_to_keyword on an action that was not in the
\* library, and the model's reply was rp
Missed == last.op = "map" /\ ~last.hit /\ ~last.raised

IsText == Missed /\ last.reply.kind = "text"

\* C1: a call of map_action_to_keyword for an action that is a key of the library
\* (with an entry holding keyword and confidence) returns the stored pair and
\* makes no language-model call.
C1_CacheHit ==
  [][\A r \in Resolvers, a \in Actions :
       (/\ MapStep(r, a)
        /\ keyword_library[r].kind = "dict"
        /\ a \in DOMAIN keyword_library[r].m
        /\ keyword_library[r].m[a].shape = "full")
       => /\ last'.ret = Pair(keyword_library[r].m[a].keyword,
                              keyword_library[r].m[a].confidence)
          /\ last'.calls = 0
          /\ ~last'.raised]_vars

C1_Witness ==
  /\ last.op = "map"
  /\ last.hit
  /\ last.calls = 0
  /\ InMemory(last.r, last.action, last.ret)

\* C2 as stated: every call for an action that is not in the library makes
\* exactly one language-model call.
C2_Original == Missed => last.calls = 1

\* C2, amended: a call for an action that is not in the library makes exactly one
\* language-model call when the client can be set up and none when it cannot
\* (nor when the library loaded from the store is a list, which ends the call
\* before the request); a failed request is not sent again, and no other
\* operation calls the model.
C2_OneCall ==
  /\ Missed => last.calls = IF \/ last.reply.kind = "init_error"
                               \/ keyword_library[last.r].kind = "list"
                            THEN 0 ELSE 1
  /\ last.calls > 0 => last.op = "map" /\ ~last.hit

C2_Witness == Missed /\ last.reply.kind = "api_error" /\ last.calls = 1

\* C3: when the language model raises for an action that is not in the library,
\* map_action_to_keyword returns (None, 0.0) and the action is in the unmapped set.
C3_ModelError ==
  (Missed /\ last.reply.kind \in {"init_error", "api_error"})
    => /\ last.ret = NoPair
       /\ last.action \in unmapped_keywords[last.r]

C3_Witness ==
  /\ Missed
  /\ last.reply.kind = "api_error"
  /\ last.ret = NoPair
  /\ last.action \in unmapped_keywords[last.r]

\* the content decodes as an object with a string keyword and a numeric confidence
DecodedPair ==
  /\ IsText
  /\ json_loads(last.reply.text).ok
  /\ json_loads(last.reply.text).isdict
  /\ json_loads(last.reply.text).has_keyword
  /\ json_loads(last.reply.text).has_confidence
  /\ json_loads(last.reply.text).keyword.t = "str"
  /\ json_loads(last.reply.text).conf_t = "num"

\* C4 as stated: the decoded keyword and confidence are returned and stored.
C4_Original ==
  (DecodedPair /\ last.saved = "ok")
    => LET d == json_loads(last.reply.text)
       IN  /\ last.ret = Pair(d.keyword, d.confidence)
           /\ InMemory(last.r, last.action, Pair(d.keyword, d.confidence))

\* C4, amended: the decoded keyword with the whitespace around it removed, and
\* the decoded confidence, are returned and stored.
C4_Decoded ==
  (DecodedPair /\ last.saved = "ok")
    => LET d == json_loads(last.reply.text)
       IN  /\ last.ret = Pair(Strip(d.keyword), d.confidence)
           /\ InMemory(last.r, last.action, Pair(Strip(d.keyword), d.confidence))

C4_Witness ==
  /\ DecodedPair
  /\ last.saved = "ok"
  /\ json_loads(last.reply.text).keyword.pad
  /\ last.ret.keyword = ClickButton

\* the content is a non-empty text that is not JSON
RawText ==
  /\ IsText
  /\ ~json_loads(last.reply.text).ok
  /\ (last.reply.text.core # "" \/ last.reply.text.pad)

\* C5 as stated: the whole text is returned as the keyword, with confidence 0.8,
\* and stored.
C5_Original ==
  (RawText /\ last.saved = "ok")
    => /\ last.ret = Pair(last.reply.text, 80)
       /\ InMemory(last.r, last.action, Pair(last.reply.text, 80))

\* C5, amended: the text with the whitespace around it removed is returned as the
\* keyword, with confidence 0.8, and stored.
C5_RawText ==
  (RawText /\ last.saved = "ok")
    => /\ last.ret = Pair(Strip(last.reply.text), 80)
       /\ InMemory(last.r, last.action, Pair(Strip(last.reply.text), 80))

C5_Witness ==
  /\ RawText
  /\ last.saved = "ok"
  /\ last.reply.text = Str(TxtPlain, TRUE)
  /\ last.ret = Pair(Str(TxtPlain, FALSE), 80)

\* C6: when the content is empty or None, map_action_to_keyword returns
\* (None, 0.0), puts the action in the unmapped set and writes no entry for it
\* into the library or the store.
C6_EmptyContent ==
  (Missed /\ (last.reply.kind = "null" \/ last.reply = Reply("text", Str("", FALSE))))
    => /\ last.ret = NoPair
       /\ last.action \in unmapped_keywords[last.r]
       /\ last.action \notin DOMAIN keyword_library[last.r].m
       /\ ~(file.kind = "json" /\ last.action \in DOMAIN JsonLoad(file).m)

\* C7: when the save after a model-derived resolution fails, the call returns
\* (None, 0.0) and the library keeps the new entry.
C7_SaveFails ==
  (last.op = "map" /\ last.saved \in {"fail", "raise"})
    => /\ last.ret = NoPair
       /\ ~last.raised
       /\ keyword_library[last.r].kind = "dict"
       /\ last.action \in DOMAIN keyword_library[last.r].m
       /\ keyword_library[last.r].m[last.action].shape = "full"

C7_Witness ==
  /\ last.op = "map"
  /\ last.saved = "fail"
  /\ ~path[last.r]
  /\ last.ret = NoPair
  /\ InMemory(last.r, last.action, Pair(ClickButton, 90))

\* C8: whenever map_action_to_keyword returns a keyword that is not None, the
\* store file holds the action with that keyword and confidence.
C8_Durable ==
  (last.op = "map" /\ ~last.raised /\ last.ret.keyword.t = "str")
    => InStore(last.action, last.ret)

\* C9: a save that succeeds leaves the store file holding the whole library of
\* the resolver, entries that no earlier save had written included; those
\* entries cost no language-model call.
C9_WholeLibrary ==
  [][\A r \in Resolvers :
       (last'.r = r /\ last'.op \in {"map", "feedback"} /\ last'.saved = "ok")
       => /\ file'.kind = "json"
          /\ JsonLoad(file') = keyword_library'[r]
          /\ \A a \in DOMAIN keyword_library[r].m :
               /\ a \in DOMAIN JsonLoad(file').m
               /\ a # last'.action => JsonLoad(file').m[a] = keyword_library[r].m[a]
          /\ last'.calls = IF last'.op = "map" THEN 1 ELSE 0]_vars

C9_Witness ==
  /\ last.op = "map"
  /\ last.saved = "ok"
  /\ last.action = "type text"
  /\ last.action \notin unmapped_keywords[last.r]
  /\ "click button" \in unmapped_keywords[last.r]
  /\ InStore("click button", Pair(ClickButton, 90))
  /\ JsonLoad(file) = keyword_library[last.r]

\* C10: a resolver constructed on the store path after a successful save holds
\* the library that was saved, and resolves every action of it without a
\* language-model call.
C10_RoundTrip ==
  [][/\ (/\ last'.op = "construct"
         /\ ~last'.raised
         /\ path'[last'.r]
         /\ last'.io = "ok"
         /\ temp_library' # NoLib)
        => keyword_library'[last'.r] = temp_library'
     /\ (/\ last.op = "construct"
         /\ ~last.raised
         /\ path[last.r]
         /\ last.io = "ok"
         /\ temp_library # NoLib
         /\ last'.op = "map"
         /\ last'.r = last.r
         /\ last'.action \in DOMAIN temp_library.m)
        => /\ last'.calls = 0
           /\ last'.hit
           /\ temp_library.m[last'.action].shape = "full"
                => last'.ret = Pair(temp_library.m[last'.action].keyword,
                                    temp_library.m[last'.action].confidence)]_vars

C10_Witness ==
  /\ last.op = "construct"
  /\ ~last.raised
  /\ path[last.r]
  /\ last.io = "ok"
  /\ temp_library # NoLib
  /\ Cardinality(DOMAIN temp_library.m) = 2
  /\ keyword_library[last.r] = temp_library

\* C11: map_action_to_keyword never lets an error out, whatever library the
\* resolver holds after construction from a store file, whatever the model
\* answers and however the save ends.
C11_NeverRaises == last.op = "map" => ~last.raised

\* C12: after add_feedback(action, keyword, confidence) has returned, whatever
\* the library and the unmapped set held for the action before, the action is
\* not in the unmapped set and the next map_action_to_keyword(action) returns
\* exactly (keyword, confidence) without a language-model call.
C12_Feedback ==
  [][/\ (last'.op = "feedback" /\ ~last'.raised)
        => /\ last'.action \notin unmapped_keywords'[last'.r]
           /\ keyword_library'[last'.r].kind = "dict"
           /\ last'.action \in DOMAIN keyword_library'[last'.r].m
           /\ keyword_library'[last'.r].m[last'.action]
                = Entry(last'.args.keyword, last'.args.confidence)
     /\ (/\ last.op = "feedback"
         /\ ~last.raised
         /\ last'.op = "map"
         /\ last'.r = last.r
         /\ last'.action = last.action)
        => /\ last'.ret = last.args
           /\ last'.calls = 0
           /\ ~last'.raised
           /\ last'.action \notin unmapped_keywords'[last'.r]]_vars

C12_Witness ==
  /\ last.op = "map"
  /\ last.hit
  /\ last.calls = 0
  /\ last.ret \in FeedbackArgs
  /\ last.action \notin unmapped_keywords[last.r]
  /\ unmapped_keywords[last.r] # {}

\* C13 as stated: add_feedback returns normally, with the entry written into the
\* library and the action out of the unmapped set, when the store path is unset,
\* when the file cannot be opened or written, and when the parent directory
\* cannot be created.
C13_Original ==
  (last.op = "feedback" /\ (~path[last.r] \/ last.io \in {"mkdir_error", "open_error",
                                                          "write_error"}))
    => /\ ~last.raised
       /\ InMemory(last.r, last.action, last.args)
       /\ last.action \notin unmapped_keywords[last.r]

\* C13, amended: add_feedback returns normally, with the entry written into the
\* library and the action out of the unmapped set, when the store path is unset
\* and when the file cannot be opened or written; when the parent directory
\* cannot be created the error leaves add_feedback, the entry is in the library
\* and the unmapped set is as it was.
C13_SaveFails ==
  [][\A r \in Resolvers, a \in Actions :
       (last'.op = "feedback" /\ last'.r = r /\ last'.action = a)
       => /\ (~path[r] \/ last'.io \in {"open_error", "write_error"})
             => /\ ~last'.raised
                /\ keyword_library'[r].kind = "dict"
                /\ a \in DOMAIN keyword_library'[r].m
                /\ keyword_library'[r].m[a]
                     = Entry(last'.args.keyword, last'.args.confidence)
                /\ a \notin unmapped_keywords'[r]
          /\ last'.io = "mkdir_error"
             => /\ last'.raised
                /\ keyword_library'[r].kind = "dict"
                /\ a \in DOMAIN keyword_library'[r].m
                /\ keyword_library'[r].m[a]
                     = Entry(last'.args.keyword, last'.args.confidence)
                /\ unmapped_keywords'[r] = unmapped_keywords[r]]_vars

C13_Witness ==
  /\ last.op = "feedback"
  /\ last.io = "mkdir_error"
  /\ last.raised
  /\ InMemory(last.r, last.action, last.args)
  /\ last.action \in unmapped_keywords[last.r]

\* C17: every call of map_action_to_keyword that returns (None, 0.0) because the
\* model failed or its response gave no usable keyword (no save was attempted)
\* leaves the action in the unmapped set.
C17_FailureRecorded ==
  (Missed /\ last.ret = NoPair /\ last.saved = "none")
    => last.action \in unmapped_keywords[last.r]

\* C19 as stated: loading does not raise and gives an empty library when the
\* store path is unset, when the store file is absent, and when it cannot be
\* read or is not JSON.
C19_Original ==
  (/\ last.op = "construct"
   /\ \/ ~path[last.r]
      \/ file.kind \in {"absent", "garbage"}
      \/ last.io = "open_error")
    => /\ ~last.raised
       /\ keyword_library[last.r] = EmptyDict

\* C19, amended: loading does not raise and gives an empty library when the
\* store path is unset, when the store file is absent and its directory exists
\* or can be created, and when the file cannot be read or is not JSON; when the
\* file is absent and its directory cannot be created, the error leaves the
\* constructor.  Loading never writes the store file.
C19_Load ==
  [][\A r \in Resolvers :
       (last'.op = "construct" /\ last'.r = r)
       => /\ file' = file
          /\ (\/ ~path'[r]
              \/ /\ last'.io # "mkdir_error"
                 /\ file.kind \in {"absent", "garbage"} \/ last'.io = "open_error")
             => /\ ~last'.raised
                /\ alive'[r]
                /\ keyword_library'[r] = EmptyDict
          /\ (path'[r] /\ last'.io = "mkdir_error")
             => /\ last'.raised
                /\ file.kind = "absent"
                /\ ~alive'[r]]_vars

C19_Witness ==
  /\ last.op = "construct"
  /\ path[last.r]
  /\ file.kind = "garbage"
  /\ last.io = "ok"
  /\ ~last.raised
  /\ keyword_library[last.r] = EmptyDict

\* the store file is a JSON object whose members all hold keyword and confidence
FlatMapping ==
  /\ file.kind = "json"
  /\ JsonLoad(file).kind = "dict"
  /\ \A a \in DOMAIN JsonLoad(file).m : JsonLoad(file).m[a].shape = "full"

\* C20: a resolver constructed on a store file that is JSON but not a mapping
\* from actions to {keyword, confidence} holds an empty library.
C20_ShapeMismatch ==
  (/\ last.op = "construct"
   /\ path[last.r]
   /\ last.io = "ok"
   /\ file.kind = "json"
   /\ ~FlatMapping)
    => keyword_library[last.r] = EmptyDict

\* C14 as stated: generate_test_case returns the resolved keyword after four
\* spaces when the resolved confidence is at least min_confidence, and the empty
\* string when it is below or when nothing was resolved.
C14_Original ==
  (last.op = "gen" /\ ~last.raised)
    => /\ (last.ret.keyword.t = "str" /\ last.ret.confidence >= min_confidence[last.r])
          => last.line = Line(last.ret.keyword)
       /\ (last.ret.keyword.t = "none" \/ last.ret.confidence < min_confidence[last.r])
          => last.line = EmptyLine

\* C14, amended: generate_test_case returns the resolved keyword after four
\* spaces when the keyword is not empty and the resolved confidence is at least
\* the resolver's min_confidence, and the empty string otherwise; for an action
\* whose library entry has a keyword that is not empty and a confidence at or
\* above min_confidence it returns the stored keyword's line without a
\* language-model call.
C14_Line ==
  [][\A r \in Resolvers, a \in Actions :
       (last'.op = "gen" /\ last'.r = r /\ last'.action = a /\ ~last'.raised)
       => /\ (/\ Truthy(last'.ret.keyword)
              /\ last'.ret.confidence >= min_confidence[r])
             => last'.line = Line(last'.ret.keyword)
          /\ (\/ ~Truthy(last'.ret.keyword)
              \/ last'.ret.confidence < min_confidence[r])
             => last'.line = EmptyLine
          /\ (/\ keyword_library[r].kind = "dict"
              /\ a \in DOMAIN keyword_library[r].m
              /\ Truthy(keyword_library[r].m[a].keyword)
              /\ keyword_library[r].m[a].confidence >= min_confidence[r])
             => /\ last'.line = Line(keyword_library[r].m[a].keyword)
                /\ last'.calls = 0]_vars

C14_Witness ==
  /\ last.op = "gen"
  /\ last.hit
  /\ last.calls = 0
  /\ last.ret = Pair(Str("Type Text", FALSE), 85)
  /\ min_confidence[last.r] = DefaultMinConfidence
  /\ last.line = Line(Str("Type Text", FALSE))

\* C15: once min_confidence has been set to t on the resolver's configuration,
\* a generate_test_case call that resolves a keyword returns a line exactly when
\* the confidence is at least t.
C15_ThresholdAtUse ==
  (last.op = "gen" /\ ~last.raised /\ config.set /\ Truthy(last.ret.keyword))
    => (last.line # EmptyLine <=> last.ret.confidence >= config.value)

\* C16: a scaffold written by TestCaseGenerator.generate_test_case never has, as
\* a step's keyword, a keyword that was resolved with a confidence below
\* min_confidence.
C16_ScaffoldGate ==
  (/\ last.op = "scaffold"
   /\ last.written
   /\ last.ret.keyword.t = "str"
   /\ last.ret.confidence < min_confidence[last.r])
    => last.step.keyword # last.ret.keyword

\* C18: an action leaves the unmapped set of a resolver only by add_feedback for
\* that action; a resolver that is constructed starts with an empty unmapped
\* set, and what is written to the store file is the library alone.
C18_OnlyFeedback ==
  [][/\ \A r \in Resolvers, a \in Actions :
          (a \in unmapped_keywords[r] /\ a \notin unmapped_keywords'[r])
          => /\ last'.r = r
             /\ \/ last'.op = "feedback" /\ last'.action = a /\ ~last'.raised
                \/ last'.op = "construct"
     /\ last'.op = "construct" => unmapped_keywords'[last'.r] = {}
     /\ file' # file
          => \/ file'.kind = "garbage"
             \/ JsonLoad(file') = keyword_library'[last'.r]]_vars

C18_Witness ==
  /\ last.op = "feedback"
  /\ last.action = "type text"
  /\ unmapped_keywords[last.r] = {"click button"}
  /\ "click button" \notin DOMAIN keyword_library[last.r].m

\* C21: a save by a resolver whose store path is unset returns False, raises
\* nothing and leaves the store file as it was, whatever the library holds; the
\* save of add_feedback is such a save whenever the path is unset.
C21_NoPath ==
  [][\A r \in Resolvers :
       (last'.op \in {"map", "feedback"} /\ last'.r = r /\ ~path[r])
       => /\ last'.op = "feedback" => last'.saved = "fail"
          /\ last'.saved \in {"none", "fail"}
          /\ ~last'.raised
          /\ last'.saved = "fail" /\ last'.op = "map" => last'.ret = NoPair
          /\ file' = file
          /\ temp_library' = temp_library]_vars

C21_Witness ==
  /\ last.op = "feedback"
  /\ ~path[last.r]
  /\ last.saved = "fail"
  /\ file.kind = "absent"
  /\ Cardinality(DOMAIN keyword_library[last.r].m) = 2

\* C22: of two resolvers constructed on one store path, the one that saved last
\* leaves the file equal to its own library; an action that only the other
\* resolver has resolved and saved is then not in the file.
C22_LastSaveWins ==
  \A r \in Resolvers, q \in Resolvers :
    (q # r /\ last.op = "map" /\ last.r = r /\ last.saved = "ok" /\ alive[q])
      => /\ file.kind = "json"
         /\ JsonLoad(file) = keyword_library[r]
         /\ \A a \in DOMAIN keyword_library[q].m \ DOMAIN keyword_library[r].m :
              a \notin DOMAIN JsonLoad(file).m

C22_Witness ==
  /\ last.op = "map"
  /\ last.r = 2
  /\ last.saved = "ok"
  /\ DOMAIN keyword_library[1].m = {"click button"}
  /\ DOMAIN keyword_library[2].m = {"type text"}
  /\ DOMAIN JsonLoad(file).m = {"type text"}

\* C23: every entry of a resolver's library has a confidence within [0.0, 1.0],
\* whatever number the model reported and whatever confidence was passed to
\* add_feedback.
C23_ConfidenceRange ==
  \A r \in Resolvers :
    \A a \in DOMAIN keyword_library[r].m :
      /\ keyword_library[r].m[a].confidence >= 0
      /\ keyword_library[r].m[a].confidence <= 100

\* the parser class the claim names for a suffix in lower case ("None" for the
\* suffixes it does not name)
ParserOf(c) ==
  IF c = ".txt" THEN "TextParser"
  ELSE IF c = ".md" \/ c = ".markdown" THEN "MarkdownParser"
  ELSE IF c = ".docx" THEN "DocxParser"
  ELSE IF c = ".pdf" THEN "PdfParser"
  ELSE "None"

C25_NoTemplate ==
  [][(last'.op = "scaffold" /\ last'.template # "text")
       => /\ last'.raised
          /\ last'.calls = 0
          /\ last'.saved = "none"
          /\ ~last'.outdir
          /\ ~last'.written
          /\ UNCHANGED <<keyword_library, unmapped_keywords, file, temp_library>>]_vars

C25_Witness ==
  /\ last.op = "scaffold"
  /\ last.template = "none"
  /\ last.raised
  /\ last.calls = 0
  /\ last.action \notin DOMAIN keyword_library[last.r].m
  /\ file.kind = "absent"
  /\ path[last.r]

\* C26: the prompt sent to the language model for an action that is not in the
\* library embeds the action phrase and the list of the keyword names the
\* library holds.
C26_PromptContext ==
  (Missed /\ last.calls > 0)
    => /\ last.prompt.action = last.action
       /\ last.prompt.has_list
       /\ \A a \in DOMAIN keyword_library[last.r].m \ {last.action} :
            keyword_library[last.r].m[a].keyword \in last.prompt.known

\* C27: a call of map_action_to_keyword or generate_test_case that finds the
\* action in the library leaves the library, the unmapped set and the store
\* file as they were; no call on a resolver removes a key from its library; and
\* an entry of the library changes only by add_feedback for its action.
C27_EntriesStable ==
  [][\A r \in Resolvers :
       (last'.r = r /\ last'.op \in {"map", "gen", "scaffold", "feedback"})
       => /\ (last'.op \in {"map", "gen"} /\ last'.hit)
             => /\ keyword_library'[r] = keyword_library[r]
                /\ unmapped_keywords'[r] = unmapped_keywords[r]
                /\ file' = file
                /\ last'.calls = 0
          /\ DOMAIN keyword_library[r].m \subseteq DOMAIN keyword_library'[r].m
          /\ \A a \in DOMAIN keyword_library[r].m :
               keyword_library'[r].m[a] # keyword_library[r].m[a]
               => last'.op = "feedback" /\ last'.action = a]_vars

C27_Witness ==
  /\ last.op = "gen"
  /\ last.hit
  /\ last.line = EmptyLine
  /\ path[last.r]
  /\ InStore(last.action, last.ret)
  /\ Cardinality(DOMAIN keyword_library[last.r].m) = 2

\* the action is a key of the library of resolver r and in its unmapped set
Overlap(r, a) == a \in DOMAIN keyword_library[r].m /\ a \in unmapped_keywords[r]

\* C28 as stated: no action is both a key of a resolver's library and a member
\* of its unmapped set.
C28_Original == \A r \in Resolvers, a \in Actions : ~Overlap(r, a)

\* C28, amended: an action comes to be both a key of the library and a member
\* of the unmapped set only by a resolution of that action that stores an entry
\* while the action is in the unmapped set from an earlier failure, or whose
\* save raises, or by an add_feedback for that action whose save raises;
\* after an add_feedback that returns, its action is not in the unmapped set.
C28_Overlap ==
  [][\A r \in Resolvers, a \in Actions :
       /\ (Overlap(r, a)' /\ ~Overlap(r, a))
          => /\ last'.r = r
             /\ last'.action = a
             /\ \/ /\ last'.op \in {"map", "gen", "scaffold"}
                   /\ ~last'.hit
                   /\ last'.saved # "none"
                   /\ a \in unmapped_keywords[r] \/ last'.saved = "raise"
                \/ /\ last'.op = "feedback"
                   /\ last'.raised
                   /\ last'.saved = "raise"
                   /\ a \in unmapped_keywords[r]
       /\ (last'.op = "feedback" /\ last'.r = r /\ last'.action = a /\ ~last'.raised)
          => ~Overlap(r, a)']_vars

C28_Witness ==
  /\ last.op = "map"
  /\ last.saved = "ok"
  /\ last.ret.keyword = ClickButton
  /\ InStore(last.action, last.ret)
  /\ Overlap(last.r, last.action)

\* the step is a call of map_action_to_keyword that ends in its except clause:
\* the model raised or gave no content, or the save raised
ErrorPath(r, a) ==
  /\ MapStep(r, a)
  /\ ~last'.hit
  /\ ~last'.raised
  /\ \/ last'.reply.kind \in {"init_error", "api_error", "null"}
     \/ last'.saved = "raise"

\* C29 as stated: a call of map_action_to_keyword that ends in the except
\* clause leaves the library and the store file as they were, and adds the
\* action to the unmapped set.
C29_Original ==
  [][\A r \in Resolvers, a \in Actions :
       ErrorPath(r, a)
       => /\ keyword_library'[r] = keyword_library[r]
          /\ file' = file
          /\ unmapped_keywords'[r] = unmapped_keywords[r] \cup {a}]_vars

\* C29, amended: a call of map_action_to_keyword that ends in the except clause
\* returns (None, 0.0), leaves the store file as it was and adds the action to
\* the unmapped set; the library is as it was when the error came from the
\* model, and holds the new entry when the error came from the save.
C29_ErrorPath ==
  [][\A r \in Resolvers, a \in Actions :
       ErrorPath(r, a)
       => /\ last'.ret = NoPair
          /\ file' = file
          /\ unmapped_keywords'[r] = unmapped_keywords[r] \cup {a}
          /\ last'.saved # "raise" => keyword_library'[r] = keyword_library[r]
          /\ last'.saved = "raise"
             => /\ a \notin DOMAIN keyword_library[r].m
                /\ a \in DOMAIN keyword_library'[r].m
                /\ \A b \in DOMAIN keyword_library[r].m :
                     keyword_library'[r].m[b] = keyword_library[r].m[b]]_vars

C29_Witness ==
  /\ last.op = "map"
  /\ last.saved = "raise"
  /\ last.io = "mkdir_error"
  /\ last.ret = NoPair
  /\ unmapped_keywords[last.r] = Actions
  /\ last.action \in DOMAIN keyword_library[last.r].m

\* the content decodes as an object with keyword and confidence fields, of any types
DecodedFields ==
  /\ IsText
  /\ json_loads(last.reply.text).ok
  /\ json_loads(last.reply.text).isdict
  /\ json_loads(last.reply.text).has_keyword
  /\ json_loads(last.reply.text).has_confidence

\* C30: when the content decodes as an object with keyword and confidence
\* fields, whatever their types, the entry the call stores for the action never
\* has the text of the response as its keyword.
C30_Precedence ==
  (DecodedFields /\ keyword_library[last.r].kind = "dict"
                 /\ last.action \in DOMAIN keyword_library[last.r].m)
    => keyword_library[last.r].m[last.action].keyword
         \notin {last.reply.text, Strip(last.reply.text)}

====
